---- MODULE Spec2Model ----
(***************************************************************************)
(* Model of the dynamic external-tool adaptation layer (mcp_client):       *)
(* schema normalization, strict and fallback tool synthesis, invocation,   *)
(* and the registration coordinator with its two tool-count caps; and of   *)
(* the agent entrypoint's lead form and credit accounting.                 *)
(*                                                                         *)
(* Python values are tagged records: None, Str(s), Num(n), Dict(f) with f  *)
(* a function from key strings to values, List(s) with s a sequence.       *)
(***************************************************************************)
EXTENDS Integers, Sequences, FiniteSets, TLC

\* ------------------------------------------------------------------ bounds
\* largest number of properties of a schema handed to the normalizer
MaxNormProps == 2
\* largest number of properties of a tool schema drawn as an input
MaxProps == 3
\* largest number of keyword arguments of one invocation
MaxArgs == 3

\* ------------------------------------------------------- program constants
MAX_TOOLS_PER_SERVER == 100
BASE_LIMIT == 120

VARIABLES
  pc,           \* position of the scenario in progress
  schema,       \* SpecNorm: the schema object handed to _normalize_json_schema
  given,        \* SpecNorm: that object as it was before the call
  norm,         \* SpecNorm: the object returned by the first call
  norm2         \* SpecNorm: the object returned by normalizing norm again

VARIABLES
  descriptor,   \* SpecTool: the tool a server's list_tools() reported
  convert,      \* SpecTool: convert_schemas_to_strict
  ftool,        \* SpecTool: the FunctionTool made by to_function_tool
  callable,     \* SpecTool: the function synthesized from ftool, or a raise
  kwargs,       \* SpecTool: the keyword arguments of the last invocation
  sent_json,    \* SpecTool: the JSON text the last invocation gave on_invoke_tool
  behaviour,    \* SpecTool: what call_tool does in the last invocation
  calls,        \* SpecTool: the call_tool calls the last invocation made
  result        \* SpecTool: what the last invocation returned

VARIABLES
  world,        \* Spec: the servers' catalogs and failures, the options, the agent class
  connected,    \* Spec: server.connected of each server
  agent,        \* Spec: the agent: whether it has a _tools list, and the list
  before,       \* Spec: the agent the last operation started from
  prepared,     \* Spec: what prepare_dynamic_tools gave the last operation
  synth_log,    \* Spec: the synthesis attempts of the last operation, in order
  returned,     \* Spec: what the last operation returned, or its raise
  last_op       \* Spec: the last operation

VARIABLES
  lead_form,                      \* SpecLead: the fields get_lead_form returned
  is_lead_form_active,            \* SpecLead: the entrypoint's variable of that name
  current_lead_form_field_index,  \* SpecLead: the entrypoint's variable of that name
  lead_form_responses,            \* SpecLead: the entrypoint's variable of that name
  lead_form_fields,               \* SpecLead: the entrypoint's variable of that name
  agent_context,                  \* SpecLead: agent_context['is_lead_form_active']
  tasks,                          \* SpecLead: the callbacks and message tasks in flight
  leads                           \* SpecLead: the forms given to create_user_lead_form

VARIABLES
  customer_credit,  \* SpecCredits: the customer's row of customer_credit, or none
  opening,          \* SpecCredits: that row as it was at the start
  deducted,         \* SpecCredits: the sum of the deductions that have committed
  jobs              \* SpecCredits: each worker's entrypoint: position and locals

leadVars == <<lead_form, is_lead_form_active, current_lead_form_field_index,
              lead_form_responses, lead_form_fields, agent_context, tasks, leads>>
creditVars == <<customer_credit, opening, deducted, jobs>>
sessionVars == <<leadVars, creditVars>>
coordVars == <<world, connected, agent, before, prepared, synth_log, returned, last_op>>
normVars == <<schema, given, norm, norm2>>
toolVars == <<descriptor, convert, ftool, callable, kwargs, sent_json, behaviour, calls, result>>
vars == <<pc, normVars, toolVars, coordVars, sessionVars>>

\* ------------------------------------------------------------ Python values
None == [t |-> "null"]
Str(s) == [t |-> "str", v |-> s]
Num(n) == [t |-> "int", v |-> n]
Dict(f) == [t |-> "dict", v |-> f]
List(s) == [t |-> "list", v |-> s]
Bool(b) == [t |-> "bool", v |-> b]

EmptyMap == [k \in {} |-> None]

\* isinstance(x, dict)
IsDict(x) == x.t = "dict"

\* d.keys()
Keys(d) == DOMAIN d.v

\* d.get(k), and d.get(k, default)
GetOr(d, k, default) == IF k \in DOMAIN d.v THEN d.v[k] ELSE default
Get(d, k) == GetOr(d, k, None)

\* d[k] = x
Put(d, k, x) == Dict([j \in (DOMAIN d.v) \cup {k} |-> IF j = k THEN x ELSE d.v[j]])

\* bool(x) is False
Falsy(x) ==
  \/ x = None
  \/ x.t = "dict" /\ DOMAIN x.v = {}
  \/ x.t = "list" /\ Len(x.v) = 0
  \/ x.t = "str" /\ x.v = ""
  \/ x.t = "int" /\ x.v = 0

StringType == Dict("type" :> Str("string"))

\* ----------------------------------------------------- schema normalization
\* NormalizeProp with an array's missing items filled by an empty mapping
NormalizePropEmptyItems(prop) ==
  IF ~IsDict(prop) THEN StringType
  ELSE
    LET p1 == IF Get(prop, "type") = None THEN Put(prop, "type", Str("string")) ELSE prop
    IN  IF Get(p1, "type") = Str("array") /\ ~IsDict(Get(p1, "items"))
        THEN Put(p1, "items", Dict(EmptyMap))
        ELSE IF Get(p1, "type") = Str("array") /\ Get(Get(p1, "items"), "type") = None
             THEN Put(p1, "items", Put(Get(p1, "items"), "type", Str("string")))
             ELSE p1

\* NormalizeProp without the default for an items mapping that has no type
NormalizePropUntypedItems(prop) ==
  IF ~IsDict(prop) THEN StringType
  ELSE
    LET p1 == IF Get(prop, "type") = None THEN Put(prop, "type", Str("string")) ELSE prop
    IN  IF Get(p1, "type") = Str("array") /\ ~IsDict(Get(p1, "items"))
        THEN Put(p1, "items", StringType)
        ELSE p1

\* One iteration of the loop over props.items(): the value stored under the
\* key once the iteration is over (the entry is updated in place).
NormalizeProp(prop) ==
  IF ~IsDict(prop) THEN StringType
  ELSE
    LET p1 == IF Get(prop, "type") = None THEN Put(prop, "type", Str("string")) ELSE prop
    IN  IF Get(p1, "type") = Str("array")
        THEN IF ~IsDict(Get(p1, "items"))
             THEN Put(p1, "items", StringType)
             ELSE IF Get(Get(p1, "items"), "type") = None
                  THEN Put(p1, "items", Put(Get(p1, "items"), "type", Str("string")))
                  ELSE p1
        ELSE p1

NormalizeProps(props) == Dict([k \in Keys(props) |-> NormalizeProp(props.v[k])])

\* The call _normalize_json_schema(s): ret is the returned object, arg is the
\* argument object as it is after the call. norm is a shallow copy of the
\* argument, so norm["properties"] and the argument's "properties" are one
\* object and the loop's writes reach both.
_normalize_json_schema(s) ==
  LET n0 == IF IsDict(s) THEN s ELSE Dict(EmptyMap)
      n1 == IF Get(n0, "type") = None THEN Put(n0, "type", Str("object")) ELSE n0
      shared == IsDict(Get(n1, "properties"))
      props == IF shared THEN NormalizeProps(Get(n1, "properties")) ELSE Dict(EmptyMap)
  IN  [ret |-> Put(n1, "properties", props),
       arg |-> IF shared THEN Put(s, "properties", props) ELSE s]

\* the variables of the other scenarios, at rest
LeadIdle ==
  /\ lead_form = None /\ is_lead_form_active = None /\ current_lead_form_field_index = None
  /\ lead_form_responses = None /\ lead_form_fields = None /\ agent_context = None
  /\ tasks = None /\ leads = None
CreditIdle == customer_credit = None /\ opening = None /\ deducted = None /\ jobs = None
SessionIdle == LeadIdle /\ CreditIdle
NormIdle == schema = None /\ given = None /\ norm = None /\ norm2 = None
ToolIdle ==
  /\ descriptor = None /\ convert = FALSE /\ ftool = None /\ callable = None
  /\ kwargs = None /\ sent_json = None /\ behaviour = None /\ calls = <<>> /\ result = None

CoordIdle ==
  /\ world = None /\ connected = None /\ agent = None /\ before = None
  /\ prepared = None /\ synth_log = <<>> /\ returned = None /\ last_op = "none"

\* ------------------------------------------------------------------ SpecNorm
\* values a property's "type" takes in the drawn schemas
PropTypes == {Str("string"), Str("array"), Str("object"), None}
\* values of an array property's "items"
ItemsValues == {Str("x"), Dict(EmptyMap), Dict("type" :> None),
                Dict("type" :> Str("integer"))}

\* WithKey(f, k, S): f, and f extended by k bound to each value of S
WithKey(F, k, S) == F \cup {[j \in (DOMAIN f) \cup {k} |-> IF j = k THEN x ELSE f[j]] : f \in F, x \in S}

PropEntries ==
  {Str("x"), None} \cup
  {Dict(f) : f \in WithKey(WithKey({EmptyMap}, "type", PropTypes), "items", ItemsValues)}

PropNames == {"q", "body", "tags"}

PropMaps ==
  UNION {[ks -> PropEntries] : ks \in {s \in SUBSET PropNames : Cardinality(s) <= MaxNormProps}}

RootTypes == {None, Str("object"), Str("string")}

NormInputs ==
  {None, Str("x"), List(<<>>)} \cup
  {Dict(f) : f \in WithKey(WithKey({EmptyMap}, "type", RootTypes), "properties",
                           {None, Str("x"), List(<<>>)} \cup {Dict(m) : m \in PropMaps})}

NormInit ==
  /\ pc = "norm"
  /\ schema \in NormInputs
  /\ given = schema
  /\ norm = None
  /\ norm2 = None
  /\ ToolIdle /\ CoordIdle /\ SessionIdle

\* norm = MCPUtil._normalize_json_schema(schema)
Normalize ==
  /\ pc = "norm"
  /\ norm' = _normalize_json_schema(schema).ret
  /\ schema' = _normalize_json_schema(schema).arg
  /\ pc' = "normalized"
  /\ UNCHANGED <<given, norm2, toolVars, coordVars, sessionVars>>

\* norm2 = MCPUtil._normalize_json_schema(norm)
NormalizeAgain ==
  /\ pc = "normalized"
  /\ norm2' = _normalize_json_schema(norm).ret
  /\ norm' = _normalize_json_schema(norm).arg
  /\ pc' = "renormalized"
  /\ UNCHANGED <<given, schema, toolVars, coordVars, sessionVars>>

NormNext == Normalize \/ NormalizeAgain

SpecNorm == NormInit /\ [][NormNext]_vars

\* ------------------------------------------------------- FunctionTool
\* json.dumps(x): the JSON text of x; json.loads(j): the value of a JSON
\* text, or a raise on a text that is no JSON
json_dumps(x) == [t |-> "json", v |-> x]
NotJson == [t |-> "garbage"]
json_loads(j) == IF j.t = "json" THEN [raised |-> FALSE, v |-> j.v] ELSE [raised |-> TRUE]

Raised == [raised |-> TRUE]
Ok(x) == [raised |-> FALSE, v |-> x]

\* an f-string: the sequence of its literal and interpolated parts
FString(parts) == [t |-> "fstr", parts |-> parts]

\* the first server of the list
FirstServer == "s1"

\* to_function_tool with an invoke_tool that calls the first server of the
\* list, whatever the server the tool was discovered on
to_function_tool_first(tool, server, convert_schemas_to_strict) ==
  LET s0 == IF Falsy(tool.inputSchema) THEN Dict(EmptyMap) ELSE tool.inputSchema
      s1 == IF convert_schemas_to_strict THEN _normalize_json_schema(s0).ret ELSE s0
  IN  [name |-> tool.name,
       params_json_schema |-> s1,
       on_invoke_tool |-> [server |-> FirstServer, current_tool_name |-> tool.name],
       server |-> server,
       strict_json_schema |-> convert_schemas_to_strict]

\* MCPUtil.to_function_tool: the FunctionTool of a discovered tool. Its
\* on_invoke_tool is the closure invoke_tool below, which holds the server
\* of this call and, as the default of current_tool_name, tool.name. The
\* field server is the server the coordinator's loop is at.
to_function_tool(tool, server, convert_schemas_to_strict) ==
  LET s0 == IF Falsy(tool.inputSchema) THEN Dict(EmptyMap) ELSE tool.inputSchema
      s1 == IF convert_schemas_to_strict THEN _normalize_json_schema(s0).ret ELSE s0
  IN  [name |-> tool.name,
       params_json_schema |-> s1,
       on_invoke_tool |-> [server |-> server, current_tool_name |-> tool.name],
       server |-> server,
       strict_json_schema |-> convert_schemas_to_strict]

\* isinstance(x, (str, int, float, bool))
IsScalar(x) == x.t \in {"str", "int", "bool"}

\* str(x) of a scalar
PyStr(x) ==
  IF x.t = "str" THEN x
  ELSE IF x.t = "bool" THEN (IF x.v THEN Str("True") ELSE Str("False"))
  ELSE Str(ToString(x.v))

\* the JSON text of the whole result, whatever its content
ResultToJson(res) == json_dumps(res)

\* the conversion of a call_tool result to the returned string
ResultToString(res) ==
  IF "content" \in Keys(res) /\ Get(res, "content").t = "list" /\ Len(Get(res, "content").v) >= 1
  THEN LET content == Get(res, "content").v
       IN  IF Len(content) = 1
           THEN IF IsScalar(content[1]) THEN PyStr(content[1]) ELSE json_dumps(content[1])
           ELSE json_dumps(Get(res, "content"))
  ELSE json_dumps(res)

\* invoke_tool without the try/except around the call: the raise propagates
invoke_tool_unguarded(ft, input_json, outcome) ==
  LET parsed == IF Falsy(input_json) THEN Ok(Dict(EmptyMap)) ELSE json_loads(input_json)
      call == [server |-> ft.on_invoke_tool.server, name |-> ft.on_invoke_tool.current_tool_name,
                   arguments |-> parsed.v]
  IN  IF parsed.raised
      THEN [ret |-> FString(<<"Error parsing input JSON for tool '",
                               ft.on_invoke_tool.current_tool_name, "': ", "JSONDecodeError">>),
            calls |-> <<>>]
      ELSE IF outcome.raised
           THEN [ret |-> [t |-> "raise", exc |-> outcome.exc], calls |-> <<call>>]
           ELSE [ret |-> ResultToString(outcome.v), calls |-> <<call>>]

\* invoke_tool with "arguments = json.loads(input_json)": the empty string is
\* parsed as any other
invoke_tool_parse_empty(ft, input_json, outcome) ==
  LET parsed == json_loads(input_json)
  IN  IF parsed.raised
      THEN [ret |-> FString(<<"Error parsing input JSON for tool '",
                               ft.on_invoke_tool.current_tool_name, "': ", "JSONDecodeError">>),
            calls |-> <<>>]
      ELSE LET call == [server |-> ft.on_invoke_tool.server, name |-> ft.on_invoke_tool.current_tool_name,
                   arguments |-> parsed.v]
           IN  IF outcome.raised
               THEN [ret |-> FString(<<"Error calling tool '", ft.on_invoke_tool.current_tool_name, "': ",
                                    outcome.exc>>),
                     calls |-> <<call>>]
               ELSE [ret |-> ResultToString(outcome.v), calls |-> <<call>>]

\* invoke_tool(context, input_json) of the FunctionTool ft. outcome is what
\* server.call_tool does when it is called: it returns a result or raises.
\* ret is the returned string, calls the call_tool calls made.
invoke_tool(ft, input_json, outcome) ==
  LET parsed == IF Falsy(input_json) THEN Ok(Dict(EmptyMap)) ELSE json_loads(input_json)
  IN  IF parsed.raised
      THEN [ret |-> FString(<<"Error parsing input JSON for tool '",
                               ft.on_invoke_tool.current_tool_name, "': ", "JSONDecodeError">>),
            calls |-> <<>>]
      ELSE LET call == [server |-> ft.on_invoke_tool.server, name |-> ft.on_invoke_tool.current_tool_name,
                   arguments |-> parsed.v]
           IN  IF outcome.raised
               THEN [ret |-> FString(<<"Error calling tool '", ft.on_invoke_tool.current_tool_name, "': ",
                                    outcome.exc>>),
                     calls |-> <<call>>]
               ELSE [ret |-> ResultToString(outcome.v), calls |-> <<call>>]

\* ------------------------------------------------------- tool synthesis
type_map ==
  ("string" :> "str") @@ ("integer" :> "int") @@ ("number" :> "float") @@ ("boolean" :> "bool")

\* hash(x) does not raise
Hashable(x) == x.t \notin {"list", "dict"}

\* type_map.get(json_type, str), for a hashable json_type
MapType(json_type) ==
  IF json_type.t = "str" /\ json_type.v \in DOMAIN type_map THEN type_map[json_type.v] ELSE "str"

\* names inspect.Parameter refuses: Python keywords, and non-identifiers
InvalidParamNames == {"from", "class", "content-type"}

\* The annotation of one parameter, from its schema entry and the json_type
\* read from it; a raise when items is no mapping or a type is unhashable.
ParamType(p_details, json_type) ==
  IF json_type = Str("array")
  THEN LET items == Get(p_details, "items")
           item_schema == IF Falsy(items) THEN Dict(EmptyMap) ELSE items
       IN  IF ~IsDict(item_schema) THEN Raised
           ELSE LET item_json_type == GetOr(item_schema, "type", Str("string"))
                IN  IF ~Hashable(item_json_type) THEN Raised
                    ELSE Ok("List[" \o MapType(item_json_type) \o "]")
  ELSE IF json_type = Str("object") THEN Ok("Dict[str, Any]")
  ELSE IF ~Hashable(json_type) THEN Raised
  ELSE Ok(MapType(json_type))

\* inspect.Parameter.empty, and a given default
NoDefault == [has |-> FALSE]
Default(x) == [has |-> TRUE, v |-> x]

Parameter(name, annotation, default) ==
  [name |-> name, kind |-> "KEYWORD_ONLY", annotation |-> annotation, default |-> default]

\* the order in which a mapping's keys are iterated
RECURSIVE SeqOfSet(_)
SeqOfSet(S) ==
  IF S = {} THEN <<>>
  ELSE LET x == CHOOSE y \in S : TRUE IN <<x>> \o SeqOfSet(S \ {x})

\* inspect.Signature(parameters=params) raises on a duplicate name
HasDuplicateNames(params) ==
  \E i, j \in 1..Len(params) : i < j /\ params[i].name = params[j].name

\* set(schema.get("required", [])): a raise when the value is not iterable
\* or holds an unhashable element (the schemas drawn hold a list or null)
RequiredSet(required) ==
  IF required.t = "list"
  THEN IF \E i \in 1..Len(required.v) : ~Hashable(required.v[i]) THEN Raised
       ELSE Ok({required.v[i] : i \in 1..Len(required.v)})
  ELSE Raised

\* a default for every parameter, required or not
StrictDefaultAlways(p_name, p_details, schema_required) ==
  LET default_val == Get(p_details, "default")
  IN  IF default_val = None THEN Default(None)
      ELSE IF Hashable(default_val) THEN Default(default_val)
      ELSE NoDefault

\* the default of a strict parameter
StrictDefault(p_name, p_details, schema_required) ==
  IF Str(p_name) \in schema_required THEN NoDefault
  ELSE LET default_val == Get(p_details, "default")
       IN  IF default_val = None THEN Default(None)
           ELSE IF Hashable(default_val) THEN Default(default_val)
           ELSE NoDefault

\* the loop of _create_decorated_tool over schema_props.items()
RECURSIVE StrictParams(_, _, _)
StrictParams(schema_props, schema_required, names) ==
  IF names = <<>> THEN Ok(<<>>)
  ELSE LET p_name == Head(names)
           p_details == schema_props.v[p_name]
       IN  IF ~IsDict(p_details) THEN Raised
           ELSE LET ty == ParamType(p_details, GetOr(p_details, "type", Str("string")))
                IN  IF ty.raised \/ p_name \in InvalidParamNames THEN Raised
                    ELSE LET rest == StrictParams(schema_props, schema_required, Tail(names))
                         IN  IF rest.raised THEN Raised
                             ELSE Ok(<<Parameter(p_name, ty.v,
                                                 StrictDefault(p_name, p_details, schema_required))>>
                                     \o rest.v)

\* MCPToolsIntegration._create_decorated_tool(tool): the synthesized
\* function, or a raise
_create_decorated_tool(tool) ==
  IF ~IsDict(tool.params_json_schema) THEN Raised
  ELSE LET schema_props == GetOr(tool.params_json_schema, "properties", Dict(EmptyMap))
           schema_required == RequiredSet(GetOr(tool.params_json_schema, "required", List(<<>>)))
       IN  IF schema_required.raised \/ ~IsDict(schema_props) THEN Raised
           ELSE LET params == StrictParams(schema_props, schema_required.v,
                                           SeqOfSet(Keys(schema_props)))
                IN  IF params.raised THEN Raised
                    ELSE [raised |-> FALSE, synthesis |-> "strict", name |-> tool.name,
                          tool |-> tool, params |-> params.v]

\* every schema property as a parameter typed Any
FallbackParamsAny(schema_props, names) ==
  Ok([i \in 1..Len(names) |-> Parameter(names[i], "Any", Default(None))])

\* the loop of _create_fallback_tool over schema_props.items()
RECURSIVE FallbackParams(_, _)
FallbackParams(schema_props, names) ==
  IF names = <<>> THEN Ok(<<>>)
  ELSE LET p_name == Head(names)
           p_details == schema_props.v[p_name]
       IN  IF ~IsDict(p_details) THEN Raised
           ELSE LET t0 == Get(p_details, "type")
                    ty == ParamType(p_details, IF Falsy(t0) THEN Str("string") ELSE t0)
                IN  IF ty.raised \/ p_name \in InvalidParamNames THEN Raised
                    ELSE LET rest == FallbackParams(schema_props, Tail(names))
                         IN  IF rest.raised THEN Raised
                             ELSE Ok(<<Parameter(p_name, ty.v, Default(None))>> \o rest.v)

\* k.lower(), for the property names of the schemas drawn
LowerOf == ("Text" :> "text") @@ ("Body" :> "body")
Lower(k) == IF k \in DOMAIN LowerOf THEN LowerOf[k] ELSE k

\* {k.lower(): k for k in canonical_keys}: canonical_keys is a set, whose
\* iteration order is not fixed, so of two keys that differ only in case
\* either one may be the value kept
LowerMaps(canonical_keys) ==
  {lm \in [{Lower(k) : k \in canonical_keys} -> canonical_keys] :
     \A l \in DOMAIN lm : Lower(lm[l]) = l}

\* add with "aliases[a] = canonical" for setdefault: a later rule replaces
\* the canonical name an earlier rule gave the alias
RECURSIVE add_overwriting(_, _, _, _)
add_overwriting(aliases, canonical_keys, canonical, alias_names) ==
  IF canonical \notin canonical_keys \/ alias_names = <<>> THEN aliases
  ELSE LET a == Head(alias_names)
           known == \E i \in 1..Len(aliases) : aliases[i].alias = a
           next == IF a \in canonical_keys THEN aliases
                   ELSE IF known
                   THEN [i \in 1..Len(aliases) |->
                           IF aliases[i].alias = a THEN [alias |-> a, canonical |-> canonical]
                           ELSE aliases[i]]
                   ELSE Append(aliases, [alias |-> a, canonical |-> canonical])
       IN  add_overwriting(next, canonical_keys, canonical, Tail(alias_names))

\* add(canonical, *alias_names) of _build_alias_map; aliases is the
\* insertion-ordered dict, a sequence of [alias, canonical] entries
RECURSIVE add(_, _, _, _)
add(aliases, canonical_keys, canonical, alias_names) ==
  IF canonical \notin canonical_keys \/ alias_names = <<>> THEN aliases
  ELSE LET a == Head(alias_names)
           known == \E i \in 1..Len(aliases) : aliases[i].alias = a
           next == IF a \notin canonical_keys /\ ~known
                   THEN Append(aliases, [alias |-> a, canonical |-> canonical])
                   ELSE aliases
       IN  add(next, canonical_keys, canonical, Tail(alias_names))

\* one rule of _build_alias_map: if key in lower_map: add(lower_map[key], ...)
Rule(aliases, canonical_keys, lower_map, key, alias_names) ==
  IF key \in DOMAIN lower_map
  THEN add(aliases, canonical_keys, lower_map[key], alias_names)
  ELSE aliases

\* _build_alias_map(tool.name, schema_props), for one outcome lower_map of
\* the iteration over canonical_keys
_build_alias_map(canonical_keys, lower_map) ==
  LET a1 == Rule(<<>>, canonical_keys, lower_map, "text",
                 <<"content", "body", "markdown", "markdown_text">>)
      a2 == Rule(a1, canonical_keys, lower_map, "markdown_text",
                 <<"markdown", "md", "content", "text">>)
      a3 == Rule(a2, canonical_keys, lower_map, "title", <<"name", "subject">>)
      a4 == Rule(a3, canonical_keys, lower_map, "document_id",
                 <<"doc_id", "documentId", "docId", "id">>)
      a5 == Rule(a4, canonical_keys, lower_map, "to",
                 <<"recipient", "email", "to_email", "recipients">>)
      a6 == Rule(a5, canonical_keys, lower_map, "subject", <<"title", "topic">>)
  IN  Rule(a6, canonical_keys, lower_map, "body", <<"content", "text", "message">>)

\* MCPToolsIntegration._create_fallback_tool(tool): the synthesized
\* function, or a raise
_create_fallback_tool(tool, lower_map) ==
  IF ~IsDict(tool.params_json_schema) THEN Raised
  ELSE LET schema_props == GetOr(tool.params_json_schema, "properties", Dict(EmptyMap))
       IN  IF ~IsDict(schema_props) THEN Raised
           ELSE LET own == FallbackParams(schema_props, SeqOfSet(Keys(schema_props)))
                    alias_map == _build_alias_map(Keys(schema_props), lower_map)
                    extra == [i \in 1..Len(alias_map) |->
                                Parameter(alias_map[i].alias, "str", Default(None))]
                IN  IF own.raised THEN Raised
                    ELSE IF HasDuplicateNames(own.v \o extra) THEN Raised
                    ELSE [raised |-> FALSE, synthesis |-> "fallback", name |-> tool.name,
                          tool |-> tool, params |-> own.v \o extra,
                          schema_props |-> schema_props, alias_map |-> alias_map]

\* the outcomes of the set iteration a fallback synthesis of tool depends on
FallbackChoices(tool) ==
  IF IsDict(tool.params_json_schema)
     /\ IsDict(GetOr(tool.params_json_schema, "properties", Dict(EmptyMap)))
  THEN LowerMaps(Keys(GetOr(tool.params_json_schema, "properties", Dict(EmptyMap))))
  ELSE {EmptyMap}

\* ----------------------------------------------------------- invocation
\* the comprehension without its filter
KeepNone(kw) == kw

\* raw = {k: v for k, v in kwargs.items() if v is not None}
DropNone(kw) == Dict([k \in {j \in Keys(kw) : kw.v[j] # None} |-> kw.v[k]])

\* payload = dict(raw): every supplied argument is copied
CopyEvery(schema_props, raw) == raw

\* for k in schema_props.keys(): if k in raw: payload[k] = raw[k]
CopyCanonical(schema_props, raw) ==
  Dict([k \in Keys(schema_props) \cap Keys(raw) |-> raw.v[k]])

\* the loop without its test "canonical_key not in payload"
RECURSIVE MapAliasesOverriding(_, _, _)
MapAliasesOverriding(payload, alias_map, raw) ==
  IF alias_map = <<>> THEN payload
  ELSE LET e == Head(alias_map)
           next == IF e.alias \in Keys(raw)
                   THEN Put(payload, e.canonical, raw.v[e.alias])
                   ELSE payload
       IN  MapAliasesOverriding(next, Tail(alias_map), raw)

\* for alias_key, canonical_key in alias_map.items(): ...
RECURSIVE MapAliases(_, _, _)
MapAliases(payload, alias_map, raw) ==
  IF alias_map = <<>> THEN payload
  ELSE LET e == Head(alias_map)
           next == IF e.canonical \notin Keys(payload) /\ e.alias \in Keys(raw)
                   THEN Put(payload, e.canonical, raw.v[e.alias])
                   ELSE payload
       IN  MapAliases(next, Tail(alias_map), raw)

\* the payload the fallback tool_impl builds from its keyword arguments
FallbackPayload(fn, kw) ==
  MapAliases(CopyCanonical(fn.schema_props, DropNone(kw)), fn.alias_map, DropNone(kw))

\* tool_impl(**kwargs) of a synthesized function
tool_impl(fn, kw, outcome) ==
  IF fn.synthesis = "strict"
  THEN invoke_tool(fn.tool, json_dumps(kw), outcome)
  ELSE invoke_tool(fn.tool, json_dumps(FallbackPayload(fn, kw)), outcome)

\* ------------------------------------------------------------------ SpecTool
\* One discovered tool: to_function_tool, then strict or fallback synthesis,
\* then invocations of the synthesized function.

\* the property names of the schemas drawn
KeyUniverse == {"text", "Text", "to", "subject", "body", "content"}

\* schemas whose properties are all well-formed string properties
NamedSchemas ==
  {Dict("properties" :> Dict([k \in ks |-> StringType])) :
     ks \in {s \in SUBSET KeyUniverse : Cardinality(s) <= MaxProps}}

\* schemas with a malformed or unusual part
OddSchemas ==
  {None,
   Dict("properties" :> None),
   Dict("properties" :> Dict("body" :> Str("x"))),
   Dict("properties" :> Dict("query" :> Dict("type" :> List(<<Str("string"), Str("null")>>)))),
   Dict("properties" :> Dict("from" :> StringType)),
   Dict(("properties" :> Dict("query" :> StringType)) @@ ("required" :> None)),
   Dict(("properties" :> Dict(("query" :> StringType) @@ ("limit" :> Dict("type" :> Str("integer")))))
        @@ ("required" :> List(<<Str("query")>>)))}

ToolSchemas == NamedSchemas \cup OddSchemas

\* the values of a keyword argument
ArgValues == {None, Str("a"), Str("b")}

\* the names of the keyword arguments callers pass: canonical names, alias
\* names, and a name no rule knows
ArgUniverse == {"text", "to", "body", "content", "recipient", "extra"}

KwargsSet ==
  {Dict(f) : f \in UNION {[ks -> ArgValues] :
                            ks \in {s \in SUBSET ArgUniverse : Cardinality(s) <= MaxArgs}}}

\* what server.call_tool may do: return a result, or raise
Exceptions == {"InvocationError", "TimeoutError"}
CallResults == {Dict("content" :> List(<<Str("done")>>))}
CallOutcomes == {Ok(r) : r \in CallResults} \cup {[raised |-> TRUE, exc |-> e] : e \in Exceptions}

\* results of other shapes: one content item, scalar or not; several items;
\* a content that is empty or no list; no content
ContentItems == {Str("done"), Num(7), Bool(TRUE), None, Dict("k" :> Str("v")), List(<<Num(1)>>)}
ShapedResults ==
  {Dict("content" :> List(<<x>>)) : x \in ContentItems}
  \cup {Dict("content" :> List(<<Str("a"), Dict("k" :> Str("v"))>>)),
        Dict("content" :> List(<<Num(1), Num(2), Num(3)>>)),
        Dict("content" :> List(<<>>)),
        Dict("content" :> Str("x")),
        Dict(("status" :> Str("ok")) @@ ("isError" :> Bool(FALSE))),
        Dict(EmptyMap)}
ShapedOutcomes == CallOutcomes \cup {Ok(r) : r \in ShapedResults}

ToolInit ==
  /\ pc = "descriptor"
  /\ descriptor \in [name : {"tool"}, inputSchema : ToolSchemas]
  /\ convert \in BOOLEAN
  /\ ftool = None /\ callable = None
  /\ kwargs = None /\ sent_json = None /\ behaviour = None /\ calls = <<>> /\ result = None
  /\ NormIdle /\ CoordIdle /\ SessionIdle

\* ftool = MCPUtil.to_function_tool(descriptor, server, convert)
ToFunctionTool ==
  /\ pc = "descriptor"
  /\ ftool' = to_function_tool(descriptor, "s1", convert)
  /\ pc' = "function_tool"
  /\ UNCHANGED <<descriptor, convert, callable, kwargs, sent_json, behaviour, calls, result, normVars, coordVars, sessionVars>>

\* callable = MCPToolsIntegration._create_decorated_tool(ftool)
CreateDecoratedTool ==
  /\ pc = "function_tool"
  /\ callable' = _create_decorated_tool(ftool)
  /\ pc' = "synthesized"
  /\ UNCHANGED <<descriptor, convert, ftool, kwargs, sent_json, behaviour, calls, result, normVars, coordVars, sessionVars>>

\* callable = MCPToolsIntegration._create_fallback_tool(ftool)
CreateFallbackTool ==
  /\ pc = "function_tool"
  /\ \E lower_map \in FallbackChoices(ftool) :
       callable' = _create_fallback_tool(ftool, lower_map)
  /\ pc' = "synthesized"
  /\ UNCHANGED <<descriptor, convert, ftool, kwargs, sent_json, behaviour, calls, result, normVars, coordVars, sessionVars>>

\* await callable(**kw)
InvokeTool ==
  /\ pc = "synthesized"
  /\ ~callable.raised
  /\ \E kw \in KwargsSet, o \in CallOutcomes :
       LET r == tool_impl(callable, kw, o)
       IN  /\ kwargs' = kw
           /\ sent_json' = IF callable.synthesis = "strict" THEN json_dumps(kw)
                            ELSE json_dumps(FallbackPayload(callable, kw))
           /\ behaviour' = o
           /\ calls' = r.calls
           /\ result' = r.ret
  /\ pc' = "invoked"
  /\ UNCHANGED <<descriptor, convert, ftool, callable, normVars, coordVars, sessionVars>>

\* await ftool.on_invoke_tool(None, j) with an empty or unparseable text
InvokeRaw ==
  /\ pc = "synthesized"
  /\ \E j \in {Str(""), NotJson}, o \in ShapedOutcomes :
       LET r == invoke_tool(ftool, j, o)
       IN  /\ kwargs' = None
           /\ sent_json' = j
           /\ behaviour' = o
           /\ calls' = r.calls
           /\ result' = r.ret
  /\ pc' = "invoked"
  /\ UNCHANGED <<descriptor, convert, ftool, callable, normVars, coordVars, sessionVars>>

\* the caller takes the returned string; the function can be invoked again
Return ==
  /\ pc = "invoked"
  /\ pc' = "synthesized"
  /\ kwargs' = None /\ sent_json' = None /\ behaviour' = None /\ calls' = <<>> /\ result' = None
  /\ UNCHANGED <<descriptor, convert, ftool, callable, normVars, coordVars, sessionVars>>

ToolNext ==
  ToFunctionTool \/ CreateDecoratedTool \/ CreateFallbackTool \/ InvokeTool \/ InvokeRaw \/ Return

SpecTool == ToolInit /\ [][ToolNext]_vars

\* ------------------------------------------------------------------- SpecSig
\* Synthesis over schemas of one property (p, or text, which has aliases)
\* whose entry declares a type, an items schema and a default, with the
\* property required or not.
SigTypes == {Str("string"), Str("integer"), Str("number"), Str("boolean"),
             Str("object"), Str("array"), Str("date")}
SigItems == {Str("x"), Dict(EmptyMap), Dict("type" :> Str("integer")), Dict("type" :> Str("object"))}
SigDefaults == {None, Str("d"), Num(1), List(<<>>), Dict(EmptyMap)}

SigEntries ==
  {Dict(f) : f \in WithKey(WithKey(WithKey({EmptyMap}, "type", SigTypes), "items", SigItems),
                           "default", SigDefaults)}

SigNames == {"p", "text"}

SigSchemas ==
  UNION {{Dict(f) : f \in WithKey({"properties" :> Dict(k :> e) : e \in SigEntries},
                                  "required", {List(<<Str(k)>>), List(<<>>)})} : k \in SigNames}

SigInit ==
  /\ pc = "descriptor"
  /\ descriptor \in [name : {"tool"}, inputSchema : SigSchemas]
  /\ convert \in BOOLEAN
  /\ ftool = None /\ callable = None
  /\ kwargs = None /\ sent_json = None /\ behaviour = None /\ calls = <<>> /\ result = None
  /\ NormIdle /\ CoordIdle /\ SessionIdle

SigNext == ToFunctionTool \/ CreateDecoratedTool \/ CreateFallbackTool

SpecSig == SigInit /\ [][SigNext]_vars

\* --------------------------------------------------- registration coordinator
Min(a, b) == IF a < b THEN a ELSE b
Max(a, b) == IF a > b THEN a ELSE b

\* an assignment x = value followed by a body that reads x: the value is
\* computed once, whatever the number of reads
With(value, Body(_)) == CHOOSE r \in {Body(x) : x \in {value}} : TRUE

\* mcp_servers, in the order of the list
Servers == <<"s1", "s2">>
ServerSet == {Servers[i] : i \in 1..Len(Servers)}

fallback_trigger_keys == {"text", "markdown_text", "body"}

\* the schemas the servers' catalogs hold
SendEmail ==
  Dict(("properties" :> Dict(("to" :> StringType) @@ ("subject" :> StringType) @@ ("body" :> StringType)))
       @@ ("required" :> List(<<Str("to"), Str("body")>>)))
Search ==
  Dict(("properties" :> Dict(("query" :> StringType) @@ ("limit" :> Dict("type" :> Str("integer")))))
       @@ ("required" :> List(<<Str("query")>>)))
NullableText ==
  Dict("properties" :> Dict("text" :> Dict("type" :> List(<<Str("string"), Str("null")>>))))
NullRequired ==
  Dict(("properties" :> Dict("query" :> StringType)) @@ ("required" :> None))
ScalarBody == Dict("properties" :> Dict("body" :> Str("x")))
NullProperties == Dict("properties" :> None)

CleanCatalog == <<SendEmail, Search, None>>
OddCatalog == <<SendEmail, Search, NullableText, NullRequired, None, ScalarBody, NullProperties>>

\* where in the catalog a server's first tool is
Offset(server) == IF server = "s1" THEN 0 ELSE 3

ToolName(server, i) == server \o "_tool" \o ToString(i)

\* await server.list_tools(): the tools of the server's catalog, or a raise
\* (ConnectionError of a server that is not connected, ProtocolError of one
\* whose catalog is malformed)
list_tools(w, conn, server) ==
  LET l == w.listing[server]
      cat == IF l.odd THEN OddCatalog ELSE CleanCatalog
  IN  IF ~conn[server] \/ l.fails THEN Raised
      ELSE Ok([i \in 1..l.n |->
                 [name |-> ToolName(server, i),
                  inputSchema |-> cat[((i - 1 + Offset(server)) % Len(cat)) + 1]]])

\* await server.connect(): server.connected afterwards
connect(w, server) == server \notin w.connect_fails

\* the loops "if not connected: try: await server.connect()"
ConnectAll(w, conn) == [s \in ServerSet |-> conn[s] \/ connect(w, s)]

\* MCPUtil.get_function_tools(server, convert_schemas_to_strict)
get_function_tools(w, conn, server, convert_schemas_to_strict) ==
  LET tools == list_tools(w, conn, server)
  IN  IF tools.raised THEN Raised
      ELSE Ok([i \in 1..Len(tools.v) |->
                 to_function_tool(tools.v[i], server, convert_schemas_to_strict)])

\* mcp_tools without the slice
Uncapped(mcp_tools) == mcp_tools

\* mcp_tools[:MAX_TOOLS_PER_SERVER]
Capped(mcp_tools) == SubSeq(mcp_tools, 1, Min(Len(mcp_tools), MAX_TOOLS_PER_SERVER))

\* set((tool_instance.params_json_schema or {}).get("properties", {}).keys()),
\* which raises when the schema or its properties is no mapping
SchemaKeys(tool_instance) ==
  LET s == IF Falsy(tool_instance.params_json_schema) THEN Dict(EmptyMap)
           ELSE tool_instance.params_json_schema
  IN  IF ~IsDict(s) THEN Raised
      ELSE IF ~IsDict(GetOr(s, "properties", Dict(EmptyMap))) THEN Raised
      ELSE Ok(Keys(GetOr(s, "properties", Dict(EmptyMap))))

\* one synthesis attempt: the tool and its schema's property names, the
\* synthesis tried, and whether it raised
Attempt(tool_instance, schema_keys, synthesis, made) ==
  [server |-> tool_instance.server, name |-> tool_instance.name, keys |-> schema_keys,
   synthesis |-> synthesis, raised |-> made.raised]

\* _create_fallback_tool(tool_instance) in the coordinator: the catalogs hold
\* no two property names that differ only in case, so there is one outcome
FallbackOf(tool_instance) ==
  _create_fallback_tool(tool_instance, CHOOSE lm \in FallbackChoices(tool_instance) : TRUE)

\* prepared_tools and agent._tools hold a synthesized function by reference;
\* the function is the one the named synthesis makes of the named tool
Ref(fn) == [server |-> fn.tool.server, name |-> fn.name, synthesis |-> fn.synthesis]

\* PrepareOne with a strict synthesis that is also tried, and its function
\* also appended, after a schema-triggered fallback synthesis that worked
PrepareOneBoth(tool_instance) ==
  LET schema_keys == SchemaKeys(tool_instance)
  IN  IF schema_keys.raised THEN [raised |-> TRUE, tools |-> <<>>, log |-> <<>>]
      ELSE
        LET force_fallback == (schema_keys.v \cap fallback_trigger_keys) # {}
            fallback_tool == FallbackOf(tool_instance)
            decorated_tool == _create_decorated_tool(tool_instance)
            first == IF force_fallback
                     THEN <<Attempt(tool_instance, schema_keys.v, "fallback", fallback_tool)>>
                     ELSE <<>>
            kept == IF force_fallback /\ ~fallback_tool.raised THEN <<Ref(fallback_tool)>> ELSE <<>>
        IN  IF ~decorated_tool.raised
            THEN [raised |-> FALSE, tools |-> kept \o <<Ref(decorated_tool)>>,
                  log |-> first \o <<Attempt(tool_instance, schema_keys.v, "strict", decorated_tool)>>]
            ELSE [raised |-> FALSE,
                  tools |-> IF fallback_tool.raised THEN <<>> ELSE <<Ref(fallback_tool)>>,
                  log |-> first \o <<Attempt(tool_instance, schema_keys.v, "strict", decorated_tool),
                                     Attempt(tool_instance, schema_keys.v, "fallback", fallback_tool)>>]

\* PrepareOne without the fallback after a strict synthesis that raised
PrepareOneNoFallback(tool_instance) ==
  LET schema_keys == SchemaKeys(tool_instance)
  IN  IF schema_keys.raised THEN [raised |-> TRUE, tools |-> <<>>, log |-> <<>>]
      ELSE
        LET force_fallback == (schema_keys.v \cap fallback_trigger_keys) # {}
            fallback_tool == FallbackOf(tool_instance)
            decorated_tool == _create_decorated_tool(tool_instance)
            first == IF force_fallback
                     THEN <<Attempt(tool_instance, schema_keys.v, "fallback", fallback_tool)>>
                     ELSE <<>>
        IN  IF force_fallback /\ ~fallback_tool.raised
            THEN [raised |-> FALSE, tools |-> <<Ref(fallback_tool)>>, log |-> first]
            ELSE [raised |-> FALSE,
                  tools |-> IF decorated_tool.raised THEN <<>> ELSE <<Ref(decorated_tool)>>,
                  log |-> first \o <<Attempt(tool_instance, schema_keys.v, "strict", decorated_tool)>>]

\* The body of the loop over mcp_tools[:MAX_TOOLS_PER_SERVER] for one tool:
\* the functions appended to prepared_tools, the attempts made, or a raise
\* that leaves prepare_dynamic_tools.
PrepareOne(tool_instance) ==
  LET schema_keys == SchemaKeys(tool_instance)
  IN  IF schema_keys.raised THEN [raised |-> TRUE, tools |-> <<>>, log |-> <<>>]
      ELSE
        LET force_fallback == (schema_keys.v \cap fallback_trigger_keys) # {}
            fallback_tool == FallbackOf(tool_instance)
            decorated_tool == _create_decorated_tool(tool_instance)
            first == IF force_fallback
                     THEN <<Attempt(tool_instance, schema_keys.v, "fallback", fallback_tool)>>
                     ELSE <<>>
        IN  IF force_fallback /\ ~fallback_tool.raised
            THEN [raised |-> FALSE, tools |-> <<Ref(fallback_tool)>>, log |-> first]
            ELSE IF ~decorated_tool.raised
            THEN [raised |-> FALSE, tools |-> <<Ref(decorated_tool)>>,
                  log |-> first \o <<Attempt(tool_instance, schema_keys.v, "strict", decorated_tool)>>]
            ELSE [raised |-> FALSE,
                  tools |-> IF fallback_tool.raised THEN <<>> ELSE <<Ref(fallback_tool)>>,
                  log |-> first \o <<Attempt(tool_instance, schema_keys.v, "strict", decorated_tool),
                                     Attempt(tool_instance, schema_keys.v, "fallback", fallback_tool)>>]

\* a place of the prepared list that holds no function
NoTool == [server |-> "", name |-> "", synthesis |-> "none"]

\* a place of the log that holds no attempt
NoAttempt == [server |-> "", name |-> "", keys |-> {}, synthesis |-> "none", raised |-> FALSE]

\* the functions put in front of the list
Prepended_to(prepared_tools, more) == more \o prepared_tools

\* prepared_tools.append(...) of each function made, in the order made
Appended_to(prepared_tools, more) == prepared_tools \o more

\* The loop over the tools of one server: every tool's iteration up to the
\* first one that raises, the functions and the attempts appended to what
\* the pass has prepared and logged so far (acc).
PrepareTools(mcp_tools, acc) ==
  With(SubSeq([i \in 1..Len(mcp_tools) |-> With(mcp_tools[i], PrepareOne)], 1, Len(mcp_tools)),
       LAMBDA each :
         LET stops == {i \in 1..Len(each) : each[i].raised}
             last == IF stops = {} THEN Len(each)
                     ELSE (CHOOSE i \in stops : \A j \in stops : i <= j) - 1
             made == [j \in 1..(2 * last) |->
                        LET one == each[((j - 1) \div 2) + 1]
                            k == ((j - 1) % 2) + 1
                        IN  IF k <= Len(one.tools) THEN one.tools[k] ELSE NoTool]
             slots == [j \in 1..(3 * last) |->
                         LET one == each[((j - 1) \div 3) + 1]
                             k == ((j - 1) % 3) + 1
                         IN  IF k <= Len(one.log) THEN one.log[k] ELSE NoAttempt]
         IN  [raised |-> stops # {},
              tools |-> Appended_to(acc.tools, SelectSeq(made, LAMBDA fn : fn # NoTool)),
              log |-> acc.log \o SelectSeq(slots, LAMBDA a : a # NoAttempt)])

RECURSIVE PrepareServers(_, _, _, _, _)

\* leaving the loop over the servers when a server's tools cannot be fetched
Break(w, conn, rest, convert_schemas_to_strict, acc) == acc

\* "continue" after a server's tools could not be fetched: on to the next server
Continue(w, conn, rest, convert_schemas_to_strict, acc) ==
  PrepareServers(w, conn, rest, convert_schemas_to_strict, acc)

\* the loop "for server in mcp_servers" of prepare_dynamic_tools
PrepareServers(w, conn, servers, convert_schemas_to_strict, acc) ==
  IF servers = <<>> THEN acc
  ELSE With(get_function_tools(w, conn, Head(servers), convert_schemas_to_strict),
            LAMBDA mcp_tools :
              IF mcp_tools.raised
              THEN Continue(w, conn, Tail(servers), convert_schemas_to_strict, acc)
              ELSE With(With(Capped(mcp_tools.v), LAMBDA first : PrepareTools(first, acc)),
                        LAMBDA mine :
                          IF mine.raised THEN mine
                          ELSE PrepareServers(w, conn, Tail(servers),
                                              convert_schemas_to_strict, mine)))

\* MCPToolsIntegration.prepare_dynamic_tools: the list returned (tools) or a
\* raise, the attempts made, and server.connected of each server afterwards
prepare_dynamic_tools(w, conn, convert_schemas_to_strict, auto_connect) ==
  With(IF auto_connect THEN ConnectAll(w, conn) ELSE conn,
       LAMBDA now :
         With(PrepareServers(w, now, Servers, convert_schemas_to_strict,
                             [raised |-> FALSE, tools |-> <<>>, log |-> <<>>]),
              LAMBDA pass :
                [raised |-> pass.raised, tools |-> pass.tools, log |-> pass.log,
                 connected |-> now]))

\* register_with_agent's extension of agent._tools without the cap
ExtendUncapped(ag, tools) ==
  IF ag.has_tools THEN [ag EXCEPT !.tools = @ \o tools] ELSE ag

\* ExtendCapped that leaves out a function the agent already holds
ExtendCappedOnce(ag, tools) ==
  IF ag.has_tools
  THEN LET available_slots == Max(0, BASE_LIMIT - Len(ag.tools))
           tools_to_add == SubSeq(tools, 1, Min(Len(tools), available_slots))
       IN  [ag EXCEPT !.tools = @ \o SelectSeq(tools_to_add,
                                               LAMBDA fn : \A i \in 1..Len(ag.tools) : ag.tools[i] # fn)]
  ELSE ag

\* register_with_agent's extension of agent._tools, capped by BASE_LIMIT
ExtendCapped(ag, tools) ==
  IF ag.has_tools
  THEN LET available_slots == Max(0, BASE_LIMIT - Len(ag.tools))
           tools_to_add == SubSeq(tools, 1, Min(Len(tools), available_slots))
       IN  [ag EXCEPT !.tools = @ \o tools_to_add]
  ELSE ag

\* create_agent_with_tools' extension of agent._tools
ExtendAll(ag, tools) ==
  IF tools # <<>> /\ ag.has_tools THEN [ag EXCEPT !.tools = @ \o tools] ELSE ag

\* agent_class(**agent_kwargs)
NewAgent(agent_class) ==
  [has_tools |-> agent_class.has_tools,
   tools |-> [i \in 1..agent_class.count |-> [builtin |-> i]]]

\* ---------------------------------------------------------------------- Spec
\* The servers' catalogs and failures, the options and the agent class are
\* fixed in the initial state; the operations are the two that attach
\* discovered tools to an agent.

\* what list_tools() of a server does: it raises, or reports no tool, a
\* short catalog, or a catalog longer than MAX_TOOLS_PER_SERVER
ShortCount == 7
MaxInvoked == 1
Failing == [fails |-> TRUE, n |-> 0, odd |-> FALSE]
Listing(n, odd) == [fails |-> FALSE, n |-> n, odd |-> odd]
ShortListings == {Failing, Listing(0, FALSE), Listing(ShortCount, FALSE), Listing(ShortCount, TRUE)}
LongListings == {Listing(MAX_TOOLS_PER_SERVER + 1, o) : o \in BOOLEAN}

\* how many tools an agent has when it is made
InitialCounts == {BASE_LIMIT - 20, BASE_LIMIT - 2, BASE_LIMIT, BASE_LIMIT + 3}

AgentClasses ==
  {[has_tools |-> TRUE, count |-> k] : k \in InitialCounts}
  \cup {[has_tools |-> FALSE, count |-> 0]}

\* servers with short catalogs, under every option and agent class
ShortWorlds ==
  [listing : [ServerSet -> ShortListings], connect_fails : {{}, {"s1"}},
   convert_schemas_to_strict : BOOLEAN, auto_connect : BOOLEAN, agent_class : AgentClasses]

\* a server with a long catalog, for an agent with no tool or with 100
LongWorlds ==
  {[listing |-> l, connect_fails |-> {}, convert_schemas_to_strict |-> c,
    auto_connect |-> TRUE, agent_class |-> [has_tools |-> TRUE, count |-> k]] :
     l \in {m \in [ServerSet -> LongListings \cup {Failing, Listing(MAX_TOOLS_PER_SERVER + 1, FALSE)}] :
              \E sv \in ServerSet : m[sv] \in LongListings},
     c \in BOOLEAN, k \in {0, BASE_LIMIT - 20}}

Worlds == ShortWorlds \cup LongWorlds

Init ==
  /\ pc = "coordinator"
  /\ world \in Worlds
  /\ connected = [s \in ServerSet |-> FALSE]
  /\ agent = NewAgent(world.agent_class)
  /\ before = agent
  /\ prepared = <<>>
  /\ synth_log = <<>>
  /\ returned = None
  /\ last_op = "none"
  /\ NormIdle /\ ToolIdle /\ SessionIdle

\* await MCPToolsIntegration.register_with_agent(agent, mcp_servers,
\*     convert_schemas_to_strict, auto_connect)
RegisterWithAgent ==
  \E got \in {prepare_dynamic_tools(world, connected, world.convert_schemas_to_strict,
                                    world.auto_connect)} :
      /\ pc = "coordinator"
      /\ last_op' = "register_with_agent"
      /\ before' = agent
      /\ connected' = got.connected
      /\ synth_log' = got.log
      /\ IF got.raised
         THEN /\ prepared' = <<>>
              /\ returned' = Raised
              /\ agent' = agent
         ELSE /\ prepared' = got.tools
              /\ returned' = Ok(got.tools)
              /\ agent' = ExtendCapped(agent, got.tools)
      /\ UNCHANGED <<pc, world, normVars, toolVars, sessionVars>>

\* agent = await MCPToolsIntegration.create_agent_with_tools(agent_class,
\*     mcp_servers, convert_schemas_to_strict=...)
CreateAgentWithTools ==
  \E conn \in {ConnectAll(world, connected)}, made \in {NewAgent(world.agent_class)} :
    \E got \in {prepare_dynamic_tools(world, conn, world.convert_schemas_to_strict, FALSE)} :
      /\ pc = "coordinator"
      /\ last_op' = "create_agent_with_tools"
      /\ connected' = conn
      /\ synth_log' = got.log
      /\ IF got.raised
         THEN /\ prepared' = <<>>
              /\ returned' = Raised
              /\ UNCHANGED <<agent, before>>
         ELSE /\ prepared' = got.tools
              /\ before' = made
              /\ agent' = ExtendAll(made, got.tools)
              /\ returned' = Ok(agent')
      /\ UNCHANGED <<pc, world, normVars, toolVars, sessionVars>>

\* the FunctionTool a place of prepared_tools was made of: the one of that
\* name among the FunctionTools of its server
ToolInstanceOf(w, conn, fn) ==
  LET mcp_tools == get_function_tools(w, conn, fn.server, w.convert_schemas_to_strict).v
  IN  mcp_tools[CHOOSE i \in 1..Len(mcp_tools) : mcp_tools[i].name = fn.name]

\* the function object of that place: the one its synthesis made
FunctionOf(fn, tool_instance) ==
  IF fn.synthesis = "strict" THEN _create_decorated_tool(tool_instance)
  ELSE FallbackOf(tool_instance)

\* the places of a list of n functions an invocation is tried at
InvokedPlaces(n) == {j \in 1..n : j <= MaxInvoked \/ j > n - MaxInvoked}

\* await fn(**kw), for a function fn of the list the last operation prepared
InvokePrepared ==
  /\ pc = "coordinator"
  /\ \E j \in InvokedPlaces(Len(prepared)), kw \in {Dict(EmptyMap)}, o \in CallOutcomes :
       \E tool_instance \in {ToolInstanceOf(world, connected, prepared[j])} :
         \E fn \in {FunctionOf(prepared[j], tool_instance)} :
           \E r \in {tool_impl(fn, kw, o)} :
             /\ callable' = prepared[j]
             /\ kwargs' = kw
             /\ behaviour' = o
             /\ calls' = r.calls
             /\ result' = r.ret
  /\ pc' = "invoked"
  /\ UNCHANGED <<descriptor, convert, ftool, sent_json, normVars, coordVars, sessionVars>>

\* the caller takes the returned string
ReturnPrepared ==
  /\ pc = "invoked"
  /\ pc' = "coordinator"
  /\ callable' = None /\ kwargs' = None /\ behaviour' = None /\ calls' = <<>> /\ result' = None
  /\ UNCHANGED <<descriptor, convert, ftool, sent_json, normVars, coordVars, sessionVars>>

Next == RegisterWithAgent \/ CreateAgentWithTools \/ InvokePrepared \/ ReturnPrepared

Spec == Init /\ [][Next]_vars

\* ------------------------------------------------------------------ SpecLead
\* The lead form of agent_entrypoint: the closure handle_lead_form_response
\* and its two callers, run as tasks of one event loop. A task runs until it
\* awaits; each action is one such run. session.say and send_text_message
\* are the framework's: their awaits suspend the task and then complete.

\* the most fields a lead form has, and the most tasks in flight
MaxFields == 3
MaxTasks == 2

TaskIds == 1..MaxTasks
Messages == {"a", "b"}
FieldLabel(i) == "field" \o ToString(i)

\* lead_form.chatBotLeadInputField of a form of n fields
ChatBotLeadInputField(n) ==
  [i \in 1..n |-> [label |-> FieldLabel(i), placeholder |-> "Insert " \o FieldLabel(i)]]

\* a task that is not running
IdleTask == [pc |-> "idle", kind |-> "none", message |-> "", success |-> "none"]

\* what "await create_user_lead_form(...)" gives: True, False, or a raise
SaveOutcomes == {"true", "false", "raise"}

\* the four assignments made only in the branch "if success"
ResetLeadFormOnSuccess(success) ==
  IF success = "true"
  THEN [is_lead_form_active |-> FALSE, current_lead_form_field_index |-> 0,
        lead_form_responses |-> <<>>, lead_form_fields |-> <<>>]
  ELSE [is_lead_form_active |-> is_lead_form_active,
        current_lead_form_field_index |-> current_lead_form_field_index,
        lead_form_responses |-> lead_form_responses, lead_form_fields |-> lead_form_fields]

\* the four assignments that follow session.say in every branch after the save
ResetLeadForm(success) ==
  [is_lead_form_active |-> FALSE, current_lead_form_field_index |-> 0,
   lead_form_responses |-> <<>>, lead_form_fields |-> <<>>]

\* lines 138-150: the form is active when the chatbot is embedded, the form
\* has fields and no lead exists yet for the session
LeadInit ==
  /\ pc = "lead"
  /\ \E n \in 0..MaxFields : lead_form = ChatBotLeadInputField(n)
  /\ is_lead_form_active \in {a \in BOOLEAN : a => Len(lead_form) > 0}
  /\ lead_form_fields = IF is_lead_form_active THEN lead_form ELSE <<>>
  /\ lead_form_responses = <<>>
  /\ current_lead_form_field_index = 0
  /\ agent_context = is_lead_form_active
  /\ tasks = [t \in TaskIds |-> IdleTask]
  /\ leads = <<>>
  /\ NormIdle /\ ToolIdle /\ CoordIdle /\ CreditIdle

\* handle_lead_form_response(user_response) from its first line to its first
\* await, or to its return when the guard fails
handle_lead_form_response(t, kind, user_response) ==
  IF ~is_lead_form_active \/ current_lead_form_field_index >= Len(lead_form_fields)
  THEN /\ tasks' = [tasks EXCEPT ![t] = IdleTask]
       /\ UNCHANGED <<is_lead_form_active, current_lead_form_field_index, lead_form_responses,
                      lead_form_fields, leads>>
  ELSE LET current_field == lead_form_fields[current_lead_form_field_index + 1]
           responses == Append(lead_form_responses,
                               [lable |-> current_field.label, value |-> user_response])
       IN  /\ lead_form_responses' = responses
           /\ current_lead_form_field_index' = current_lead_form_field_index + 1
           /\ IF current_lead_form_field_index + 1 < Len(lead_form_fields)
              THEN /\ tasks' = [tasks EXCEPT ![t] = [pc |-> "say_question", kind |-> kind,
                                                     message |-> user_response, success |-> "none"]]
                   /\ UNCHANGED leads
              ELSE /\ tasks' = [tasks EXCEPT ![t] = [pc |-> "saving", kind |-> kind,
                                                     message |-> user_response, success |-> "none"]]
                   /\ leads' = Append(leads, [form |-> responses])
           /\ UNCHANGED <<is_lead_form_active, lead_form_fields>>

\* UnifiedAgent.on_user_turn_completed(turn_ctx, new_message)
OnUserTurnCompleted ==
  \E t \in TaskIds, m \in Messages :
    /\ pc = "lead" /\ tasks[t].pc = "idle"
    /\ IF agent_context
       THEN handle_lead_form_response(t, "voice", m)
       ELSE UNCHANGED <<tasks, is_lead_form_active, current_lead_form_field_index,
                        lead_form_responses, lead_form_fields, leads>>
    /\ UNCHANGED <<pc, lead_form, agent_context, normVars, toolVars, coordVars, creditVars>>

\* process_text_message(room, session, message) up to its awaits of
\* send_text_message and send_text
ProcessTextMessage ==
  \E t \in TaskIds, m \in Messages :
    /\ pc = "lead" /\ tasks[t].pc = "idle"
    /\ tasks' = [tasks EXCEPT ![t] = [pc |-> "text_sending", kind |-> "text", message |-> m,
                                      success |-> "none"]]
    /\ UNCHANGED <<pc, lead_form, is_lead_form_active, current_lead_form_field_index,
                   lead_form_responses, lead_form_fields, agent_context, leads,
                   normVars, toolVars, coordVars, creditVars>>

\* process_text_message from "if is_lead_form_active:" on; without a form the
\* message goes to session.generate_reply
TextMessageSent ==
  \E t \in TaskIds :
    /\ pc = "lead" /\ tasks[t].pc = "text_sending"
    /\ IF is_lead_form_active
       THEN handle_lead_form_response(t, "text", tasks[t].message)
       ELSE /\ tasks' = [tasks EXCEPT ![t] = IdleTask]
            /\ UNCHANGED <<is_lead_form_active, current_lead_form_field_index,
                           lead_form_responses, lead_form_fields, leads>>
    /\ UNCHANGED <<pc, lead_form, agent_context, normVars, toolVars, coordVars, creditVars>>

\* "await session.say(question)" completes: return True
QuestionSaid ==
  \E t \in TaskIds :
    /\ pc = "lead" /\ tasks[t].pc = "say_question"
    /\ tasks' = [tasks EXCEPT ![t] = IdleTask]
    /\ UNCHANGED <<pc, lead_form, is_lead_form_active, current_lead_form_field_index,
                   lead_form_responses, lead_form_fields, agent_context, leads,
                   normVars, toolVars, coordVars, creditVars>>

\* "await create_user_lead_form(...)" completes; the branch taken calls
\* session.say
LeadFormSaved ==
  \E t \in TaskIds, success \in SaveOutcomes :
    /\ pc = "lead" /\ tasks[t].pc = "saving"
    /\ tasks' = [tasks EXCEPT ![t].pc = "say_result", ![t].success = success]
    /\ UNCHANGED <<pc, lead_form, is_lead_form_active, current_lead_form_field_index,
                   lead_form_responses, lead_form_fields, agent_context, leads,
                   normVars, toolVars, coordVars, creditVars>>

\* "await session.say(...)" of the branch completes: the state is reset and
\* the handler returns True
ResultSaid ==
  \E t \in TaskIds :
    /\ pc = "lead" /\ tasks[t].pc = "say_result"
    /\ \E reset \in {ResetLeadForm(tasks[t].success)} :
         /\ is_lead_form_active' = reset.is_lead_form_active
         /\ current_lead_form_field_index' = reset.current_lead_form_field_index
         /\ lead_form_responses' = reset.lead_form_responses
         /\ lead_form_fields' = reset.lead_form_fields
    /\ tasks' = [tasks EXCEPT ![t] = IdleTask]
    /\ UNCHANGED <<pc, lead_form, agent_context, leads, normVars, toolVars, coordVars, creditVars>>

LeadNext ==
  \/ OnUserTurnCompleted \/ ProcessTextMessage \/ TextMessageSent
  \/ QuestionSaid \/ LeadFormSaved \/ ResultSaid

SpecLead == LeadInit /\ [][LeadNext]_vars

\* --------------------------------------------------------------- SpecCredits
\* The credit accounting of a customer whose conversations run in several
\* workers: each worker process runs agent_entrypoint for its own room, and
\* its session's metrics_collected events deduct credits from the customer's
\* one row of customer_credit. The functions of db_queries hold no await, so
\* inside one worker a call runs whole; the database is what workers share,
\* and a statement of one worker can fall between two statements of another.

\* the most deductions one session makes
MaxDeductions == 2

\* agent.py: check_customer_credits(customer_id, 20)
MinimumCreditsToStart == 20
\* db_queries.py: tokens_per_credit and minimum_credit of calculate_credits_used
tokens_per_credit == 70
minimum_credit == 20

Workers == {"w1", "w2"}

\* metric.metrics.total_tokens of an LLM metrics event
TokenCounts == {100, 1400, 2100}

\* the customer's row at the start: no row, a row whose credits is NULL, or a
\* row with credits (total_spent NULL or a number)
OpeningRows ==
  {None} \cup [credits : {None, Num(0), Num(19), Num(20), Num(100)},
               total_spent : {None, Num(0)}]

\* calculate_credits_used(total_tokens): the quotient by tokens_per_credit,
\* times 1.5 above 1000 tokens and 1.2 above 500, rounded up, at least
\* minimum_credit (the factors in tenths; the quotients of TokenCounts and
\* their products are exact in floating point)
calculate_credits_used(total_tokens) ==
  LET tenths == IF total_tokens > 1000 THEN 15 ELSE IF total_tokens > 500 THEN 12 ELSE 10
      d == tokens_per_credit * 10
      ceiling == (total_tokens * tenths + d - 1) \div d
  IN  Max(ceiling, minimum_credit)

\* check_customer_credits that takes a failed check for a passed one
check_customer_credits_open(row, minimum_credits, db_ok) ==
  IF ~db_ok \/ (row # None /\ row.credits = None)
  THEN [has_credits |-> TRUE, current_credits |-> 0]
  ELSE LET current_credits == IF row # None THEN row.credits.v ELSE 0
       IN  [has_credits |-> current_credits >= minimum_credits,
            current_credits |-> current_credits]

\* check_customer_credits(customer_id, minimum_credits), row the customer's
\* row or None: a failure of the connection or of the comparison (credits
\* NULL) is caught and reported as no credits
check_customer_credits(row, minimum_credits, db_ok) ==
  IF ~db_ok \/ (row # None /\ row.credits = None)
  THEN [has_credits |-> FALSE, current_credits |-> 0]
  ELSE LET current_credits == IF row # None THEN row.credits.v ELSE 0
       IN  [has_credits |-> current_credits >= minimum_credits,
            current_credits |-> current_credits]

\* a worker whose job has not begun
NewJob ==
  [pc |-> "start", credit_check |-> None, seen |-> None, db_ok |-> TRUE,
   session_started |-> FALSE, room_connected |-> FALSE,
   row |-> None, total_credits |-> 0, deductions |-> 0]

CreditsInit ==
  /\ pc = "credits"
  /\ opening \in OpeningRows
  /\ customer_credit = opening
  /\ deducted = 0
  /\ jobs = [w \in Workers |-> NewJob]
  /\ NormIdle /\ ToolIdle /\ CoordIdle /\ LeadIdle

OtherVars == <<pc, opening, normVars, toolVars, coordVars, leadVars>>

\* await ctx.connect(...); await ctx.wait_for_participant()
Connect(w) ==
  /\ pc = "credits" /\ jobs[w].pc = "start"
  /\ jobs' = [jobs EXCEPT ![w].pc = "connected", ![w].room_connected = TRUE]
  /\ UNCHANGED <<customer_credit, deducted, OtherVars>>

\* existing_chatbot = await get_chat_bot_by_id(knowledgebase_id); without a
\* chatbot the entrypoint raises
GetChatBot(w) ==
  /\ pc = "credits" /\ jobs[w].pc = "connected"
  /\ \E existing_chatbot \in BOOLEAN :
       jobs' = [jobs EXCEPT ![w].pc = IF existing_chatbot THEN "checking" ELSE "raised"]
  /\ UNCHANGED <<customer_credit, deducted, OtherVars>>

\* credit_check = await check_customer_credits(customer_id, 20) and the test
\* of has_credits
CheckCredits(w) ==
  /\ pc = "credits" /\ jobs[w].pc = "checking"
  /\ \E db_ok \in BOOLEAN :
       \E credit_check \in {check_customer_credits(customer_credit, MinimumCreditsToStart, db_ok)} :
         jobs' = [jobs EXCEPT ![w].credit_check = credit_check,
                              ![w].seen = customer_credit,
                              ![w].db_ok = db_ok,
                              ![w].pc = IF credit_check.has_credits THEN "preparing"
                                        ELSE "insufficient"]
  /\ UNCHANGED <<customer_credit, deducted, OtherVars>>

\* the branch "if not credit_check.get('has_credits')": the messages, the
\* sleep, await ctx.room.disconnect(), return
Disconnect(w) ==
  /\ pc = "credits" /\ jobs[w].pc = "insufficient"
  /\ jobs' = [jobs EXCEPT ![w].pc = "returned", ![w].room_connected = FALSE]
  /\ UNCHANGED <<customer_credit, deducted, OtherVars>>

\* await session.start(agent=agent, room=ctx.room)
SessionStart(w) ==
  /\ pc = "credits" /\ jobs[w].pc = "preparing"
  /\ jobs' = [jobs EXCEPT ![w].pc = "running", ![w].session_started = TRUE]
  /\ UNCHANGED <<customer_credit, deducted, OtherVars>>

\* on_metrics_collected -> deduct_credits -> deduct_customer_credits up to
\* its SELECT: the row is fetched; without a row, or without a connection,
\* the call raises
SelectCredits(w) ==
  /\ pc = "credits" /\ jobs[w].pc = "running" /\ jobs[w].deductions < MaxDeductions
  /\ \E total_tokens \in TokenCounts, db_ok \in BOOLEAN :
       IF ~db_ok \/ customer_credit = None
       THEN jobs' = [jobs EXCEPT ![w].deductions = @ + 1]
       ELSE jobs' = [jobs EXCEPT ![w].pc = "selected", ![w].row = customer_credit,
                                 ![w].total_credits = calculate_credits_used(total_tokens),
                                 ![w].deductions = @ + 1]
  /\ UNCHANGED <<customer_credit, deducted, OtherVars>>

\* deduct_customer_credits from the arithmetic to the commit: the UPDATE
\* writes the values computed from the row that was fetched
UpdateCredits(w) ==
  /\ pc = "credits" /\ jobs[w].pc = "selected"
  /\ LET row == jobs[w].row
         total_credits == jobs[w].total_credits
     IN  IF row.credits = None
         THEN UNCHANGED <<customer_credit, deducted>>
         ELSE /\ customer_credit' =
                   [credits |-> Num(row.credits.v - total_credits),
                    total_spent |-> Num((IF row.total_spent = None THEN 0 ELSE row.total_spent.v)
                                        + total_credits)]
              /\ deducted' = deducted + total_credits
  /\ jobs' = [jobs EXCEPT ![w].pc = "running", ![w].row = None, ![w].total_credits = 0]
  /\ UNCHANGED OtherVars

CreditsNext ==
  \E w \in Workers :
    \/ Connect(w) \/ GetChatBot(w) \/ CheckCredits(w) \/ Disconnect(w)
    \/ SessionStart(w) \/ SelectCredits(w) \/ UpdateCredits(w)

SpecCredits == CreditsInit /\ [][CreditsNext]_vars

\* the entrypoint is one coroutine the worker's event loop runs on: each of
\* its awaits up to the end of the credit branch completes
SpecCreditsFair ==
  SpecCredits /\ \A w \in Workers : WF_vars(CheckCredits(w)) /\ WF_vars(Disconnect(w))

\* ==================================================================== claims

\* the arguments of the one call_tool call the last invocation made
SentArguments == calls[1].arguments

\* a fallback function was invoked with keyword arguments
FallbackInvoked ==
  /\ pc = "invoked" /\ kwargs # None
  /\ callable.synthesis = "fallback"

\* C1: when the bound server.call_tool raises, the invocation of a
\* synthesized function (strict or fallback) does not raise: it returns a
\* string that starts with an error indication and carries the exception.
C1_InvocationNeverThrows ==
  (pc = "invoked" /\ kwargs # None /\ behaviour.raised) =>
    /\ Len(calls) = 1
    /\ result.t = "fstr"
    /\ result.parts[1] = "Error calling tool '"
    /\ result.parts[4] = behaviour.exc

C1_Witness ==
  /\ FallbackInvoked
  /\ behaviour.raised /\ behaviour.exc = "TimeoutError"
  /\ result = FString(<<"Error calling tool '", "tool", "': ", "TimeoutError">>)

\* C3: a fallback tool whose schema has the property text, invoked with only
\* the alias argument content, sends a payload in which text is the supplied
\* value and in which there is no content key.
C3_ContentAliasSetsText ==
  (/\ FallbackInvoked
   /\ "text" \in Keys(callable.schema_props)
   /\ "content" \notin Keys(callable.schema_props)
   /\ Keys(kwargs) = {"content"} /\ kwargs.v["content"] # None) =>
    /\ Len(calls) = 1
    /\ "text" \in Keys(SentArguments)
    /\ SentArguments.v["text"] = kwargs.v["content"]
    /\ "content" \notin Keys(SentArguments)

\* the keyword arguments without those given as null
WithoutNulls(kw) == Dict([k \in {j \in Keys(kw) : kw.v[j].t # "null"} |-> kw.v[k]])

C9_NormalizeIdempotent ==
  (pc = "renormalized") =>
    /\ norm2 = norm
    /\ norm2 = _normalize_json_schema(given).ret

C9_Witness ==
  /\ pc = "renormalized"
  /\ IsDict(given) /\ IsDict(Get(given, "properties"))
  /\ \E k \in Keys(Get(given, "properties")) :
       LET p == Get(given, "properties").v[k]
       IN  IsDict(p) /\ Get(p, "type") = Str("array") /\ ~IsDict(Get(p, "items"))
  /\ norm2 = norm /\ norm # given

\* the value of an entry of the given schema's properties, None if the given
\* schema has no such entry
GivenProp(k) ==
  IF IsDict(given) /\ IsDict(Get(given, "properties")) THEN Get(Get(given, "properties"), k)
  ELSE None

\* C10: in the normalized schema every property is a mapping with a non-null
\* type, "string" when the given entry was no mapping or had no type; every
\* array property has an items mapping with a non-null type, "string" when
\* the given items was no mapping or had no type.
C10_PropertiesTyped ==
  (pc = "normalized") =>
    \A k \in Keys(Get(norm, "properties")) :
      LET p == Get(norm, "properties").v[k]
          g == GivenProp(k)
      IN  /\ IsDict(p)
          /\ Get(p, "type") # None
          /\ (~IsDict(g) \/ Get(g, "type") = None) => Get(p, "type") = Str("string")
          /\ Get(p, "type") = Str("array") =>
               /\ IsDict(Get(p, "items"))
               /\ Get(Get(p, "items"), "type") # None
               /\ (~IsDict(Get(g, "items")) \/ Get(Get(g, "items"), "type") = None)
                    => Get(Get(p, "items"), "type") = Str("string")

C10_Witness ==
  /\ pc = "normalized"
  /\ \E k, j \in Keys(Get(norm, "properties")) :
       /\ GivenProp(k) = Dict(EmptyMap)
       /\ Get(norm, "properties").v[k] = StringType
       /\ GivenProp(j) = Dict("type" :> Str("array"))
       /\ Get(norm, "properties").v[j] = Dict(("type" :> Str("array")) @@ ("items" :> StringType))

\* an operation on the agent has returned (it did not raise)
Returned(op) == last_op = op /\ ~returned.raised

\* the functions the last operation appended to the agent's tool list
Appended ==
  IF agent.has_tools THEN SubSeq(agent.tools, Len(before.tools) + 1, Len(agent.tools)) ELSE <<>>

\* C2: a tool whose schema property names meet {text, markdown_text, body}
\* is only ever given to fallback synthesis: no attempt of the pass is a
\* strict synthesis of such a tool, also when a synthesis raises.
C2_TriggeredNeverStrict ==
  \A i \in 1..Len(synth_log) :
    (synth_log[i].keys \cap {"text", "markdown_text", "body"}) # {}
      => synth_log[i].synthesis = "fallback"

\* the functions of the prepared list that come from server sv
PreparedFrom(sv) == SelectSeq(prepared, LAMBDA fn : fn.server = sv)

\* the tools of server sv the pass considered: the names of the log's
\* attempts on sv, one per tool
ConsideredFrom(sv) ==
  LET firsts == SelectSeq([i \in 1..Len(synth_log) |-> i],
                          LAMBDA i : /\ synth_log[i].server = sv
                                     /\ (i = 1 \/ synth_log[i - 1].name # synth_log[i].name))
  IN  [j \in 1..Len(firsts) |-> synth_log[firsts[j]].name]

\* the server could not be reached or its list_tools() raised in the last pass
FetchFailed(sv) == ~connected[sv] \/ world.listing[sv].fails

\* the number of tools list_tools() of the server returned in the last pass
Reported(sv) == IF FetchFailed(sv) THEN 0 ELSE world.listing[sv].n

\* C5: of each server the pass considers the first 100 discovered tools, in
\* discovery order, and no other: a server that reports n tools contributes
\* at most min(n, 100) functions, each made from one of its first 100 tools.
C5_PerServerCap ==
  (last_op # "none" /\ ~returned.raised) =>
    \A sv \in ServerSet :
      LET n == Reported(sv)
          first == [i \in 1..Min(n, 100) |-> ToolName(sv, i)]
          made == PreparedFrom(sv)
          names == {made[j].name : j \in 1..Len(made)}
      IN  /\ ConsideredFrom(sv) = first
          /\ Len(made) <= Min(n, 100)
          /\ [j \in 1..Len(made) |-> made[j].name] = SelectSeq(first, LAMBDA nm : nm \in names)

C5_Witness ==
  /\ Returned("register_with_agent")
  /\ world.listing["s1"].n = 101
  /\ Len(PreparedFrom("s1")) = 100
  /\ Len(ConsideredFrom("s1")) = 100

\* C6: register_with_agent on an agent that holds k tools appends the first
\* min(m, max(0, 120 - k)) of the m prepared functions, in their order, and
\* nothing else; with k >= 120 the tool list is unchanged.
C6_RegisterAppendsWithinCap ==
  (Returned("register_with_agent") /\ before.has_tools) =>
    LET k == Len(before.tools)
        m == Len(prepared)
    IN  /\ agent.has_tools
        /\ agent.tools = before.tools \o SubSeq(prepared, 1, Min(m, Max(0, 120 - k)))
        /\ k >= 120 => agent = before

C6_Witness ==
  /\ Returned("register_with_agent")
  /\ Len(before.tools) = 100
  /\ Len(prepared) >= 50
  /\ Len(agent.tools) = 120
  /\ Appended = SubSeq(prepared, 1, 20)

\* C7: after every operation that attaches discovered tools to an agent
\* (register_with_agent, create_agent_with_tools) the agent holds at most
\* max(120, the number of tools it had before the operation) tools.
C7_EveryOperationCapped ==
  (last_op # "none" /\ ~returned.raised /\ agent.has_tools) =>
    Len(agent.tools) <= Max(120, Len(before.tools))

\* C8: the list register_with_agent returns is the list of the functions it
\* appended to the agent's tool list, also when the cap truncates and when
\* the agent has no tool list.
C8_ReturnsRegistered ==
  Returned("register_with_agent") => returned.v = Appended

\* C11: for every input schema the normalized schema has the root type
\* "object" and a properties field that is a mapping.
C11_RootIsObject ==
  (pc = "normalized") =>
    /\ Get(norm, "type") = Str("object")
    /\ IsDict(Get(norm, "properties"))

\* C12: normalization has no side effect: after the call the schema passed
\* in, with its properties and every nested mapping, is what it was before.
C12_InputUnchanged ==
  (pc = "normalized") => schema = given

\* the names of the attempts on server sv that made a function
MadeFrom(sv) ==
  LET ok == SelectSeq(synth_log, LAMBDA a : a.server = sv /\ ~a.raised)
  IN  [j \in 1..Len(ok) |-> ok[j].name]

\* C13: a server whose connect() or list_tools() fails contributes no tool
\* and does not end the pass: every other server is still queried (each of
\* its first 100 tools is considered) and the functions made of its tools
\* are in the returned list.
C13_FailedServerSkipped ==
  (last_op # "none" /\ ~returned.raised) =>
    \A sv \in ServerSet :
      IF FetchFailed(sv)
      THEN PreparedFrom(sv) = <<>> /\ ConsideredFrom(sv) = <<>>
      ELSE /\ ConsideredFrom(sv) =
                [i \in 1..Min(world.listing[sv].n, 100) |-> ToolName(sv, i)]
           /\ [j \in 1..Len(PreparedFrom(sv)) |-> PreparedFrom(sv)[j].name] = MadeFrom(sv)

C13_Witness ==
  /\ Returned("register_with_agent")
  /\ "s1" \in world.connect_fails /\ ~connected["s1"] /\ ~world.listing["s1"].fails
  /\ world.listing["s1"].n > 0
  /\ PreparedFrom("s1") = <<>>
  /\ connected["s2"] /\ Len(PreparedFrom("s2")) >= 3
  /\ prepared = PreparedFrom("s2")

\* the attempts i and j of the log are on the same tool
SameTool(i, j) ==
  synth_log[i].server = synth_log[j].server /\ synth_log[i].name = synth_log[j].name

\* the prepared list holds a function made of the tool of attempt i
InPrepared(i) ==
  \E j \in 1..Len(prepared) :
    prepared[j].server = synth_log[i].server /\ prepared[j].name = synth_log[i].name

\* attempt i is a strict synthesis that raised, attempt i + 1 the fallback
\* synthesis of the same tool
StrictThenFallback(i) ==
  /\ i < Len(synth_log)
  /\ synth_log[i].synthesis = "strict" /\ synth_log[i].raised
  /\ synth_log[i + 1].synthesis = "fallback" /\ SameTool(i, i + 1)

\* C14: a strict synthesis that raises is followed by a fallback synthesis of
\* the same tool; when that raises too the tool alone is dropped: every
\* other tool of the server and of the later servers is still considered.
C14_StrictFailureFallsBack ==
  /\ \A i \in 1..Len(synth_log) :
       (synth_log[i].synthesis = "strict" /\ synth_log[i].raised) => StrictThenFallback(i)
  /\ (last_op # "none" /\ ~returned.raised) =>
       /\ \A i \in 1..Len(synth_log) :
            (StrictThenFallback(i) /\ synth_log[i + 1].raised) => ~InPrepared(i)
       /\ \A i \in 1..Len(synth_log) :
            (StrictThenFallback(i) /\ ~synth_log[i + 1].raised) => InPrepared(i)
       /\ \A sv \in ServerSet :
            ConsideredFrom(sv) = [i \in 1..Min(Reported(sv), 100) |-> ToolName(sv, i)]

C14_Witness ==
  /\ Returned("register_with_agent")
  /\ \E i, j \in 1..Len(synth_log) :
       /\ StrictThenFallback(i) /\ synth_log[i + 1].raised /\ ~InPrepared(i)
       /\ i + 1 < j
       /\ synth_log[j].server = synth_log[i].server
       /\ StrictThenFallback(j) /\ ~synth_log[j + 1].raised /\ InPrepared(j)
  /\ \E j \in 1..Len(prepared) : prepared[j].server = "s2"

\* the functions of the prepared list made of the i-th tool of server sv
FunctionsOf(sv, i) ==
  {j \in 1..Len(prepared) : prepared[j].server = sv /\ prepared[j].name = ToolName(sv, i)}

\* the attempts of the log on the i-th tool of server sv that made a function
MakingAttempts(sv, i) ==
  {a \in 1..Len(synth_log) :
     /\ synth_log[a].server = sv /\ synth_log[a].name = ToolName(sv, i)
     /\ ~synth_log[a].raised}

\* C15 as stated: every tool kept by the per-server cap has exactly one
\* function in the list prepare_dynamic_tools returns.
C15_ExactlyOne ==
  (last_op # "none" /\ ~returned.raised) =>
    \A sv \in ServerSet : \A i \in 1..Min(Reported(sv), 100) :
      Cardinality(FunctionsOf(sv, i)) = 1

\* C15, amended: every tool kept by the per-server cap has at most one
\* function in the returned list, made by the one synthesis of it that did
\* not raise, strict or fallback and never both; it has none exactly when
\* every synthesis tried for it raised.
C15_AtMostOne ==
  (last_op # "none" /\ ~returned.raised) =>
    \A sv \in ServerSet : \A i \in 1..Min(Reported(sv), 100) :
      /\ Cardinality(FunctionsOf(sv, i)) <= 1
      /\ Cardinality(MakingAttempts(sv, i)) <= 1
      /\ Cardinality(FunctionsOf(sv, i)) = Cardinality(MakingAttempts(sv, i))
      /\ \A j \in FunctionsOf(sv, i) : \A a \in MakingAttempts(sv, i) :
           prepared[j].synthesis = synth_log[a].synthesis

C15_Witness ==
  /\ Returned("register_with_agent")
  /\ Reported("s1") = ShortCount
  /\ \E i, j, k \in 1..ShortCount :
       /\ FunctionsOf("s1", i) = {}
       /\ \E f \in FunctionsOf("s1", j) : prepared[f].synthesis = "strict"
       /\ \E f \in FunctionsOf("s1", k) : prepared[f].synthesis = "fallback"

\* where the tool of a prepared function is in the pass: the place of its
\* server in mcp_servers and its place in the server's listing
Place(fn) ==
  [server |-> CHOOSE n \in 1..Len(Servers) : Servers[n] = fn.server,
   tool |-> CHOOSE i \in 1..world.listing[fn.server].n : ToolName(fn.server, i) = fn.name]

Precedes(p, q) == p.server < q.server \/ (p.server = q.server /\ p.tool < q.tool)

\* C16: the returned list is ordered by the order of the servers and, within
\* a server, by the order of discovery, whichever synthesis made a function.
C16_DiscoveryOrder ==
  (last_op # "none" /\ ~returned.raised) =>
    \A j \in 1..(Len(prepared) - 1) : Precedes(Place(prepared[j]), Place(prepared[j + 1]))

C16_Witness ==
  /\ Returned("register_with_agent")
  /\ \E j, k \in 1..(Len(prepared) - 1) :
       /\ prepared[j].server = "s1" /\ prepared[j].synthesis = "strict"
       /\ prepared[j + 1].server = "s1" /\ prepared[j + 1].synthesis = "fallback"
       /\ Place(prepared[j]).tool + 1 < Place(prepared[j + 1]).tool
       /\ j < k
       /\ prepared[k].server = "s1" /\ prepared[k + 1].server = "s2"

\* C17: register_with_agent does not de-duplicate: a call keeps every entry
\* the agent's tool list has, in place, and appends the functions it
\* prepared, those whose names the list already holds included, as far as
\* the cap leaves slots.
C17_NoDeduplication ==
  [][(/\ pc = "coordinator" /\ pc' = "coordinator"
      /\ last_op' = "register_with_agent" /\ ~returned'.raised /\ agent.has_tools) =>
       /\ Len(agent'.tools) >= Len(agent.tools)
       /\ SubSeq(agent'.tools, 1, Len(agent.tools)) = agent.tools
       /\ SubSeq(agent'.tools, Len(agent.tools) + 1, Len(agent'.tools))
            = SubSeq(prepared', 1, Min(Len(prepared'), Max(0, 120 - Len(agent.tools))))]_vars

\* a second call has appended a function of a name the list already held
C17_Witness ==
  /\ Returned("register_with_agent")
  /\ agent.has_tools
  /\ \E i \in 1..Len(before.tools) : \E k \in (Len(before.tools) + 1)..Len(agent.tools) :
       /\ agent.tools[i] = agent.tools[k]
       /\ agent.tools[k].name = "s1_tool1"

\* a strict synthesis has made a function of the schema of ftool
StrictMade == pc = "synthesized" /\ ~callable.raised /\ callable.synthesis = "strict"

\* the schema entry of a parameter, and the names the schema requires
EntryOf(param) == Get(ftool.params_json_schema, "properties").v[param.name]
RequiredNames ==
  LET r == GetOr(ftool.params_json_schema, "required", List(<<>>))
  IN  {r.v[i].v : i \in 1..Len(r.v)}

\* C18: in strict synthesis every parameter is keyword-only; a required
\* parameter has no default; a parameter that is not required has the
\* declared default when that is hashable, None when none is declared or it
\* is null, and no default when the declared default is a list or a map.
C18_StrictDefaults ==
  StrictMade =>
    /\ {callable.params[i].name : i \in 1..Len(callable.params)}
         = Keys(Get(ftool.params_json_schema, "properties"))
    /\ \A i \in 1..Len(callable.params) :
         LET param == callable.params[i]
             declared == Get(EntryOf(param), "default")
         IN  /\ param.kind = "KEYWORD_ONLY"
             /\ param.name \in RequiredNames => param.default = [has |-> FALSE]
             /\ param.name \notin RequiredNames =>
                  /\ declared.t = "null" => param.default = [has |-> TRUE, v |-> None]
                  /\ declared.t \in {"str", "int"} => param.default = [has |-> TRUE, v |-> declared]
                  /\ declared.t \in {"list", "dict"} => param.default = [has |-> FALSE]

C18_Witness ==
  /\ StrictMade
  /\ Len(callable.params) = 1
  /\ RequiredNames = {}
  /\ Get(EntryOf(callable.params[1]), "default") = Num(1)
  /\ callable.params[1] = [name |-> "p", kind |-> "KEYWORD_ONLY", annotation |-> "int",
                           default |-> [has |-> TRUE, v |-> Num(1)]]

\* the parameter type the table gives a declared type
TableType(json_type) ==
  IF json_type = Str("string") THEN "str"
  ELSE IF json_type = Str("integer") THEN "int"
  ELSE IF json_type = Str("number") THEN "float"
  ELSE IF json_type = Str("boolean") THEN "bool"
  ELSE "Dict[str, Any]"

TableTypes == {Str("string"), Str("integer"), Str("number"), Str("boolean"), Str("object")}

\* C19: strict synthesis types a parameter by the table string->str,
\* integer->int, number->float, boolean->bool, object->key-value map, and an
\* array as the list of the table's type of its items type (an array of
\* objects is a list of key-value maps).
C19_TypeTable ==
  StrictMade =>
    \A i \in 1..Len(callable.params) :
      LET param == callable.params[i]
          ty == Get(EntryOf(param), "type")
          items == Get(EntryOf(param), "items")
      IN  /\ ty \in TableTypes => param.annotation = TableType(ty)
          /\ (ty = Str("array") /\ IsDict(items) /\ Get(items, "type") \in TableTypes) =>
               param.annotation = "List[" \o TableType(Get(items, "type")) \o "]"

\* call_tool was called and returned a result
CallReturned == pc = "invoked" /\ Len(calls) = 1 /\ ~behaviour.raised

\* the string form of a scalar: the string itself, the digits of a number,
\* True or False
StringForm(x) ==
  IF x.t = "str" THEN x
  ELSE IF x = Bool(TRUE) THEN Str("True")
  ELSE IF x = Bool(FALSE) THEN Str("False")
  ELSE Str(ToString(x.v))

\* C20: the string an invocation returns for a result of call_tool: of one
\* scalar content item (string, number, boolean) its string form; of one
\* other content item its JSON text; of two or more items the JSON text of
\* the content list; of a result without a content key the JSON text of the
\* whole result.
C20_ResultConversion ==
  CallReturned =>
    LET res == behaviour.v
        content == Get(res, "content")
    IN  /\ "content" \notin Keys(res) => result = [t |-> "json", v |-> res]
        /\ ("content" \in Keys(res) /\ content.t = "list") =>
             /\ (Len(content.v) = 1 /\ content.v[1].t \in {"str", "int", "bool"}) =>
                  result = StringForm(content.v[1])
             /\ (Len(content.v) = 1 /\ content.v[1].t \notin {"str", "int", "bool"}) =>
                  result = [t |-> "json", v |-> content.v[1]]
             /\ Len(content.v) >= 2 => result = [t |-> "json", v |-> content]

C20_Witness ==
  /\ CallReturned
  /\ behaviour.v = Dict("content" :> List(<<Dict("k" :> Str("v"))>>))
  /\ result = [t |-> "json", v |-> Dict("k" :> Str("v"))]

\* a fallback synthesis has made a function of the schema of ftool
FallbackMade == pc = "synthesized" /\ ~callable.raised /\ callable.synthesis = "fallback"

\* the parameters of the synthesized function that have the given name
ParamsNamed(k) == {i \in 1..Len(callable.params) : callable.params[i].name = k}

C22_BoundToServerAndName ==
  (pc = "invoked" /\ world # None) =>
    /\ Len(calls) = 1
    /\ calls[1].server = callable.server
    /\ calls[1].name = callable.name
    /\ \E i \in 1..world.listing[callable.server].n : callable.name = ToolName(callable.server, i)

C22_Witness ==
  /\ pc = "invoked" /\ world # None
  /\ \E j \in 1..Len(prepared) : prepared[j].server = "s1"
  /\ callable.server = "s2" /\ callable.name = ToolName("s2", ShortCount)
  /\ calls = <<[server |-> "s2", name |-> ToolName("s2", ShortCount), arguments |-> Dict(EmptyMap)]>>

\* the places of the alias map whose alias was supplied, not null, for the
\* canonical name c
SuppliedAliases(c) ==
  {i \in 1..Len(callable.alias_map) :
     /\ callable.alias_map[i].canonical = c
     /\ callable.alias_map[i].alias \in Keys(kwargs)
     /\ kwargs.v[callable.alias_map[i].alias] # None}

\* the keyword argument k was supplied and is not null
Supplied(k) == k \in Keys(kwargs) /\ kwargs.v[k] # None

C24_MalformedToolSkipped ==
  (last_op # "none") =>
    /\ ~returned.raised
    /\ \A sv \in ServerSet :
         ConsideredFrom(sv) = [i \in 1..Min(Reported(sv), 100) |-> ToolName(sv, i)]

\* on_invoke_tool of the FunctionTool was invoked with an arguments string
RawInvoked == pc = "invoked" /\ kwargs = None

\* C25: an arguments string that is no JSON makes the invocation return an
\* error string that names the tool, and call_tool is not called; an empty
\* arguments string is taken as the empty object, and call_tool is called
\* once, with {}.
C25_ArgumentsParsing ==
  RawInvoked =>
    /\ (sent_json = NotJson) =>
         /\ calls = <<>>
         /\ result.t = "fstr"
         /\ result.parts[1] = "Error parsing input JSON for tool '"
         /\ result.parts[2] = descriptor.name
    /\ (sent_json = Str("")) =>
         /\ Len(calls) = 1
         /\ calls[1].name = descriptor.name
         /\ SentArguments = Dict(EmptyMap)

C25_Witness ==
  /\ RawInvoked
  /\ sent_json = NotJson
  /\ calls = <<>>
  /\ result = FString(<<"Error parsing input JSON for tool '", "tool", "': ", "JSONDecodeError">>)

\* the property names of the schema of the FunctionTool the function was made of
SchemaPropertyNames ==
  LET properties == GetOr(ftool.params_json_schema, "properties", Dict(EmptyMap))
  IN  IF IsDict(properties) THEN Keys(properties) ELSE {}

AliasMaps == {_build_alias_map(SchemaPropertyNames, lm) : lm \in FallbackChoices(ftool)}

\* C27: the alias map of every schema is well formed: no alias is a property
\* name of the schema, every alias has one entry, whose canonical name is a
\* property of the schema, and of two rules that offer the same alias the
\* first wins (schema {text, body}: content maps to text); the signature of a
\* fallback function has no two parameters of the same name.
C27_AliasMapWellFormed ==
  /\ (pc = "function_tool") =>
       \A am \in AliasMaps :
         /\ \A i \in 1..Len(am) :
              /\ am[i].alias \notin SchemaPropertyNames
              /\ am[i].canonical \in SchemaPropertyNames
              /\ \A j \in 1..Len(am) : am[i].alias = am[j].alias => i = j
         /\ ("content" \notin SchemaPropertyNames
             /\ \E k \in SchemaPropertyNames : Lower(k) = "text") =>
              \E i \in 1..Len(am) : am[i].alias = "content" /\ Lower(am[i].canonical) = "text"
         /\ (SchemaPropertyNames = {"text", "body"}) =>
              am = <<[alias |-> "content", canonical |-> "text"],
                     [alias |-> "markdown", canonical |-> "text"],
                     [alias |-> "markdown_text", canonical |-> "text"],
                     [alias |-> "message", canonical |-> "body"]>>
  /\ (pc = "synthesized" /\ ~callable.raised /\ callable.synthesis = "fallback") =>
       /\ callable.alias_map \in AliasMaps
       /\ \A i, j \in 1..Len(callable.params) :
            callable.params[i].name = callable.params[j].name => i = j

\* the fallback function of a schema with text and body, two rules of which
\* offer the alias content
C27_Witness ==
  /\ pc = "synthesized" /\ ~callable.raised /\ callable.synthesis = "fallback"
  /\ SchemaPropertyNames = {"text", "body"}
  /\ \E i \in 1..Len(callable.alias_map) :
       callable.alias_map[i] = [alias |-> "content", canonical |-> "text"]
  /\ Len(callable.params) = 6

\* a task of the lead form is between the save and the reset
Saving == \E t \in TaskIds : tasks[t].pc \in {"saving", "say_result"}

\* C28: with a lead form, whatever the interleaving of voice turns and text
\* messages: the responses recorded are one per field answered, in field
\* order; create_user_lead_form is called at most once, with one response per
\* field of the form, in field order; and once the handler that answered
\* the last field has returned the form is inactive, whether the save
\* returned true, returned false, or raised.
C28_LeadFormOnce ==
  (pc = "lead") =>
    /\ is_lead_form_active =>
         /\ current_lead_form_field_index <= Len(lead_form_fields)
         /\ Len(lead_form_responses) = current_lead_form_field_index
         /\ \A i \in 1..Len(lead_form_responses) :
              lead_form_responses[i].lable = lead_form_fields[i].label
         /\ (current_lead_form_field_index = Len(lead_form_fields)) => Saving
    /\ Len(leads) <= 1
    /\ \A c \in 1..Len(leads) :
         /\ Len(leads[c].form) = Len(lead_form)
         /\ \A i \in 1..Len(lead_form) : leads[c].form[i].lable = lead_form[i].label
    /\ (leads # <<>> /\ ~Saving) => ~is_lead_form_active
    /\ Saving => (is_lead_form_active /\ Len(leads) = 1 /\ leads[1].form = lead_form_responses)

\* a text message answered the last field and is being saved while the voice
\* turn that answered the field before is still asking the next question
C28_Witness ==
  /\ pc = "lead"
  /\ Len(lead_form) = 2
  /\ tasks[1].pc = "say_question" /\ tasks[1].kind = "voice"
  /\ tasks[2].pc = "say_result" /\ tasks[2].kind = "text" /\ tasks[2].success = "raise"
  /\ leads = <<[form |-> <<[lable |-> "field1", value |-> "a"], [lable |-> "field2", value |-> "b"]>>]>>

\* no deduction is between its SELECT and its commit
NoDeductionRunning == \A w \in Workers : jobs[w].pc # "selected"

\* C29: whatever the workers that deduct for the same customer, once the
\* deductions have committed the row's credits are the opening credits less
\* the sum of the amounts deducted, and total_spent is the opening total_spent
\* plus that sum: no deduction is lost.
C29_NoDeductionLost ==
  (pc = "credits" /\ NoDeductionRunning /\ deducted > 0) =>
    /\ customer_credit.credits = Num(opening.credits.v - deducted)
    /\ customer_credit.total_spent =
         Num((IF opening.total_spent = None THEN 0 ELSE opening.total_spent.v) + deducted)

\* the initial check of worker w found fewer than 20 credits, no row, or failed
CheckFailed(w) ==
  /\ jobs[w].credit_check # None
  /\ \/ ~jobs[w].db_ok
     \/ jobs[w].seen = None
     \/ jobs[w].seen.credits = None
     \/ jobs[w].seen.credits.v < 20

\* C30: a session is started only after the initial credit check reported at
\* least 20 credits; when the check finds fewer than 20 credits or no row, or
\* fails, the session is never started, and the entrypoint disconnects the
\* room and returns.
C30_StartOnlyWithCredits ==
  /\ [](pc = "credits" =>
          \A w \in Workers :
            /\ jobs[w].session_started =>
                 /\ jobs[w].credit_check # None
                 /\ jobs[w].credit_check.has_credits
                 /\ jobs[w].credit_check.current_credits >= 20
                 /\ ~CheckFailed(w)
            /\ CheckFailed(w) =>
                 /\ ~jobs[w].session_started
                 /\ jobs[w].pc \in {"insufficient", "returned"}
                 /\ (jobs[w].pc = "returned") => ~jobs[w].room_connected)
  /\ \A w \in Workers :
       (pc = "credits" /\ CheckFailed(w))
         ~> (jobs[w].pc = "returned" /\ ~jobs[w].room_connected /\ ~jobs[w].session_started)

\* the check of one worker finds the credits spent by the session of another
C30_Witness ==
  /\ pc = "credits"
  /\ opening # None /\ opening.credits = Num(100)
  /\ jobs["w1"].session_started /\ jobs["w1"].credit_check.current_credits = 100
  /\ jobs["w2"].pc = "returned" /\ ~jobs["w2"].room_connected /\ ~jobs["w2"].session_started
  /\ jobs["w2"].seen.credits = Num(10)/\ ~jobs["w2"].credit_check.has_credits

====
